---- MODULE Spec2Model ----
(***************************************************************************)
(* Model of the Observer / Observable core of src/index.ts.                *)
(*                                                                         *)
(* Every subscribe() call creates one Observer; the model keeps the        *)
(* Observers of up to NumSubs subscribe() calls made on one Observable.    *)
(* The Observable is either Observable.from(values) or one built from a    *)
(* caller-supplied producer, whose calls on the Observer (synchronously    *)
(* inside subscribe(), or later from a timer or I/O callback) are chosen   *)
(* nondeterministically.  The producer of Observable.from runs to its end  *)
(* inside subscribe(), so subscribing to it is one step.                   *)
(*                                                                         *)
(* log[s] records, in order, every invocation of a handler and of the      *)
(* teardown action of subscription s.  terminal, unsubscribed, ncalls and  *)
(* runs are history variables of the calls made; the code has no such      *)
(* fields.                                                                 *)
(***************************************************************************)
EXTENDS Integers, Sequences, FiniteSets

\* ---- bounds ----
NumSubs == 2        \* subscribe() calls modelled
MaxVal == 3         \* values are 1..MaxVal
MaxLen == 3         \* longest array handed to Observable.from
MaxCalls == 4       \* calls made by the callers and by custom producers
MaxNest == 1        \* depth of the calls handlers make on their own Observer

Subs == 1..NumSubs
Values == 1..MaxVal
Errors == {"boom"}
HandlerNames == {"next", "error", "complete"}

VARIABLES
    observable,     \* the Observable under observation (its _subscribe)
    pc,             \* per subscription: position of its subscribe() call
    handlers,       \* Observer.handlers: the handlers that are present
    isUnsubscribed, \* Observer.isUnsubscribed
    _unsubscribe,   \* Observer._unsubscribe is assigned
    log,            \* handler and teardown invocations, in order
    terminal,       \* history: the first of error/complete/unsubscribe called
    unsubscribed,   \* history: unsubscribe() has been called
    ncalls,         \* history: calls made by the callers and by custom producers
    runs            \* history: invocations of the producer (this._subscribe)

vars == <<observable, pc, handlers, isUnsubscribed, _unsubscribe, log,
          terminal, unsubscribed, ncalls, runs>>

\* ---- sequences of bounded length ----
SeqsUpTo(S, n) == UNION {[1..k -> S] : k \in 0..n}

\* the Observables that can be constructed
FromObservables == {[kind |-> "from", values |-> vs] : vs \in SeqsUpTo(Values, MaxLen)}
ProducerObservable == [kind |-> "producer", values |-> <<>>]

\* ---- events of the log ----
NextEv(v) == <<"next", v>>
ErrorEv(e) == <<"error", e>>
CompleteEv == <<"complete">>
TeardownEv == <<"teardown">>

\* ---- class Observer ----
\* An Observer is the record of the fields of subscription s.
ObserverOf(s) ==
    [handlers |-> handlers[s], isUnsubscribed |-> isUnsubscribed[s],
     _unsubscribe |-> _unsubscribe[s], log |-> log[s]]

\* new Observer(obs)
NewObserver(obs) ==
    [handlers |-> obs, isUnsubscribed |-> FALSE, _unsubscribe |-> FALSE,
     log |-> <<>>]

\* unsubscribe() that runs the teardown but leaves isUnsubscribed alone
unsubscribe_noflag(o) ==
    [o EXCEPT !.log = IF o._unsubscribe THEN Append(@, TeardownEv) ELSE @]

\* Observer.unsubscribe()
unsubscribe(o) ==
    [o EXCEPT !.isUnsubscribed = TRUE,
              !.log = IF o._unsubscribe THEN Append(@, TeardownEv) ELSE @]

\* next() that ends the stream after delivering the value
next_terminating(o, value) ==
    IF "next" \in o.handlers /\ ~o.isUnsubscribed
    THEN unsubscribe([o EXCEPT !.log = Append(@, NextEv(value))])
    ELSE o

\* Observer.next(value)
next(o, value) ==
    IF "next" \in o.handlers /\ ~o.isUnsubscribed
    THEN [o EXCEPT !.log = Append(@, NextEv(value))]
    ELSE o

\* error() without the isUnsubscribed guard
error_unguarded(o, err) ==
    unsubscribe(IF "error" \in o.handlers
                THEN [o EXCEPT !.log = Append(@, ErrorEv(err))]
                ELSE o)

\* Observer.error(error)
error(o, err) ==
    IF ~o.isUnsubscribed
    THEN unsubscribe(IF "error" \in o.handlers
                     THEN [o EXCEPT !.log = Append(@, ErrorEv(err))]
                     ELSE o)
    ELSE o

\* complete() without the isUnsubscribed guard
complete_unguarded(o) ==
    unsubscribe(IF "complete" \in o.handlers
                THEN [o EXCEPT !.log = Append(@, CompleteEv)]
                ELSE o)

\* complete() with this.unsubscribe() inside the handler's presence check
complete_needsHandler(o) ==
    IF ~o.isUnsubscribed /\ "complete" \in o.handlers
    THEN unsubscribe([o EXCEPT !.log = Append(@, CompleteEv)])
    ELSE o

\* Observer.complete()
complete(o) ==
    IF ~o.isUnsubscribed
    THEN unsubscribe(IF "complete" \in o.handlers
                     THEN [o EXCEPT !.log = Append(@, CompleteEv)]
                     ELSE o)
    ELSE o

\* isUnsubscribed as a static field, shared by all Observers
Store_static(s, o) ==
    /\ handlers' = [handlers EXCEPT ![s] = o.handlers]
    /\ isUnsubscribed' = [t \in Subs |-> o.isUnsubscribed]
    /\ _unsubscribe' = [_unsubscribe EXCEPT ![s] = o._unsubscribe]
    /\ log' = [log EXCEPT ![s] = o.log]

\* The fields are instance fields: writing the Observer o back as the state
\* of subscription s touches no other Observer.
Store(s, o) ==
    /\ handlers' = [handlers EXCEPT ![s] = o.handlers]
    /\ isUnsubscribed' = [isUnsubscribed EXCEPT ![s] = o.isUnsubscribed]
    /\ _unsubscribe' = [_unsubscribe EXCEPT ![s] = o._unsubscribe]
    /\ log' = [log EXCEPT ![s] = o.log]

\* a constructor that runs the producer it is given
Init_eager ==
    /\ observable \in FromObservables \cup {ProducerObservable}
    /\ pc = [s \in Subs |-> "none"]
    /\ handlers = [s \in Subs |-> {}]
    /\ isUnsubscribed = [s \in Subs |-> FALSE]
    /\ _unsubscribe = [s \in Subs |-> FALSE]
    /\ log = [s \in Subs |-> <<>>]
    /\ terminal = [s \in Subs |-> "none"]
    /\ unsubscribed = [s \in Subs |-> FALSE]
    /\ ncalls = 0
    /\ runs = 1

\* ---- initial state: the Observable has been constructed, nothing subscribed ----
Init ==
    /\ observable \in FromObservables \cup {ProducerObservable}
    /\ pc = [s \in Subs |-> "none"]
    /\ handlers = [s \in Subs |-> {}]
    /\ isUnsubscribed = [s \in Subs |-> FALSE]
    /\ _unsubscribe = [s \in Subs |-> FALSE]
    /\ log = [s \in Subs |-> <<>>]
    /\ terminal = [s \in Subs |-> "none"]
    /\ unsubscribed = [s \in Subs |-> FALSE]
    /\ ncalls = 0
    /\ runs = 0

\* history: op is called on the Observer of subscription s
Called(s, op) ==
    /\ terminal' = [terminal EXCEPT ![s] = IF @ = "none" /\ op # "next" THEN op ELSE @]
    /\ unsubscribed' = [unsubscribed EXCEPT ![s] = @ \/ op = "unsubscribe"]
    /\ ncalls' = ncalls + 1

\* subscribe() runs the producer synchronously (line 84): while one
\* subscribe() call is inside its producer, no other subscription acts.
NoOtherInProducer(s) == \A t \in Subs \ {s} : pc[t] # "producer"

\* ---- Observable.subscribe ----
\* the next subscribe() call creates subscription s
CanSubscribe(s) ==
    /\ pc[s] = "none"
    /\ \A t \in Subs : t < s => pc[t] = "returned"
    /\ ncalls < MaxCalls

\* subscribe(obs): `new Observer(obs)`, then control enters this._subscribe
SubscribeCall(s, obs) ==
    /\ CanSubscribe(s)
    /\ observable.kind = "producer"
    /\ Store(s, NewObserver(obs))
    /\ pc' = [pc EXCEPT ![s] = "producer"]
    /\ ncalls' = ncalls + 1
    /\ runs' = runs + 1
    /\ UNCHANGED <<observable, terminal, unsubscribed>>

\* an assignment that runs the teardown at once when the Observer is
\* already terminated
SubscribeReturn_retroactive(s) ==
    /\ pc[s] = "producer"
    /\ _unsubscribe' = [_unsubscribe EXCEPT ![s] = TRUE]
    /\ log' = [log EXCEPT ![s] = IF isUnsubscribed[s] THEN Append(@, TeardownEv) ELSE @]
    /\ pc' = [pc EXCEPT ![s] = "returned"]
    /\ UNCHANGED <<observable, handlers, isUnsubscribed,
                   terminal, unsubscribed, ncalls, runs>>

\* the producer has returned its teardown action: it is assigned to
\* observer._unsubscribe and the Subscription is handed to the caller
SubscribeReturn(s) ==
    /\ pc[s] = "producer"
    /\ _unsubscribe' = [_unsubscribe EXCEPT ![s] = TRUE]
    /\ pc' = [pc EXCEPT ![s] = "returned"]
    /\ UNCHANGED <<observable, handlers, isUnsubscribed, log,
                   terminal, unsubscribed, ncalls, runs>>

\* ---- Observable.from ----
\* forEach walking the array from its end
RECURSIVE forEachNext_reversed(_, _)
forEachNext_reversed(o, values) ==
    IF values = <<>> THEN o
    ELSE next(forEachNext_reversed(o, Tail(values)), Head(values))

\* values.forEach((value) => observer.next(value))
RECURSIVE forEachNext(_, _)
forEachNext(o, values) ==
    IF values = <<>> THEN o
    ELSE forEachNext(next(o, Head(values)), Tail(values))

\* the producer from(values) hands to the constructor: the Observer after
\* the producer has run (it returns the logging teardown)
fromProducer(o, values) == complete(forEachNext(o, values))

\* subscribe(obs) on Observable.from(values): new Observer, the producer
\* runs to its end, its teardown is assigned, the Subscription is returned
SubscribeFrom(s, obs) ==
    /\ CanSubscribe(s)
    /\ observable.kind = "from"
    /\ Store(s, [fromProducer(NewObserver(obs), observable.values)
                    EXCEPT !._unsubscribe = TRUE])
    /\ pc' = [pc EXCEPT ![s] = "returned"]
    /\ terminal' = [terminal EXCEPT ![s] = "complete"]
    /\ ncalls' = ncalls + 1
    /\ runs' = runs + 1
    /\ UNCHANGED <<observable, unsubscribed>>

\* ---- a caller-supplied producer ----
\* It holds the Observer from the moment subscribe() calls it, and may call
\* it inside subscribe() (pc = "producer") or afterwards (pc = "returned").
ProducerHolds(s) ==
    /\ observable.kind = "producer"
    /\ pc[s] \in {"producer", "returned"}
    /\ NoOtherInProducer(s)
    /\ ncalls < MaxCalls

ProducerNext(s, v) ==
    /\ ProducerHolds(s)
    /\ Store(s, next(ObserverOf(s), v))
    /\ Called(s, "next")
    /\ UNCHANGED <<observable, pc, runs>>

ProducerError(s, e) ==
    /\ ProducerHolds(s)
    /\ Store(s, error(ObserverOf(s), e))
    /\ Called(s, "error")
    /\ UNCHANGED <<observable, pc, runs>>

ProducerComplete(s) ==
    /\ ProducerHolds(s)
    /\ Store(s, complete(ObserverOf(s)))
    /\ Called(s, "complete")
    /\ UNCHANGED <<observable, pc, runs>>

\* observer.unsubscribe() is public: the producer may call it inside
\* subscribe() as well (afterwards its call is the Subscription's call)
ProducerUnsubscribe(s) ==
    /\ ProducerHolds(s)
    /\ pc[s] = "producer"
    /\ Store(s, unsubscribe(ObserverOf(s)))
    /\ Called(s, "unsubscribe")
    /\ UNCHANGED <<observable, pc, runs>>

\* ---- the Subscription returned by subscribe ----
\* subscription.unsubscribe(): observer.unsubscribe()
Unsubscribe(s) ==
    /\ pc[s] = "returned"
    /\ NoOtherInProducer(s)
    /\ ncalls < MaxCalls
    /\ Store(s, unsubscribe(ObserverOf(s)))
    /\ Called(s, "unsubscribe")
    /\ UNCHANGED <<observable, pc, runs>>

\* ---- handlers that call back into their own Observer ----
\* A handler is caller code: it may hold the Observer (through the producer)
\* or the Subscription and call next/error/complete/unsubscribe while it
\* runs.  nested lists these calls by depth: nested[1] is made by the handler
\* invoked first, nested[2] by the handler that nested[1] invokes, and so on.
Calls ==
    {<<"next", v>> : v \in Values} \cup {<<"error", e>> : e \in Errors}
        \cup {<<"complete">>, <<"unsubscribe">>}

\* the calls a handler and the handlers it invokes can make, by depth: a
\* call that is followed by a deeper one is a call that invokes a handler
\* again, error or complete
NestedCalls ==
    {n \in SeqsUpTo(Calls, MaxNest) :
        \A i \in 1..(Len(n) - 1) : n[i][1] \in {"error", "complete"}}

RECURSIVE call(_, _, _)

\* this.handlers.error(error) / this.handlers.complete(): the invocation,
\* then the call the handler makes itself
invoke(o, ev, nested) ==
    LET o1 == [o EXCEPT !.log = Append(@, ev)]
    IN  IF nested = <<>> THEN o1 ELSE call(o1, Head(nested), Tail(nested))

\* error() that closes the Observer before it invokes the handler
errorReentrant_closeFirst(o, err, nested) ==
    IF ~o.isUnsubscribed
    THEN LET o1 == unsubscribe(o)
         IN  IF "error" \in o.handlers THEN invoke(o1, ErrorEv(err), nested) ELSE o1
    ELSE o

\* Observer.error(error), its handler making the calls nested
errorReentrant(o, err, nested) ==
    IF ~o.isUnsubscribed
    THEN unsubscribe(IF "error" \in o.handlers
                     THEN invoke(o, ErrorEv(err), nested)
                     ELSE o)
    ELSE o

\* Observer.complete(), its handler making the calls nested
completeReentrant(o, nested) ==
    IF ~o.isUnsubscribed
    THEN unsubscribe(IF "complete" \in o.handlers
                     THEN invoke(o, CompleteEv, nested)
                     ELSE o)
    ELSE o

\* the call c on the Observer o
call(o, c, nested) ==
    CASE c[1] = "next" -> next(o, c[2])
      [] c[1] = "error" -> errorReentrant(o, c[2], nested)
      [] c[1] = "complete" -> completeReentrant(o, nested)
      [] c[1] = "unsubscribe" -> unsubscribe(o)

\* Only a handler that runs makes a call: the handler of op is present and
\* the Observer is not terminated, and every nested call but the last is an
\* error/complete whose handler is present (isUnsubscribed is still false
\* while these handlers run).
NestedRuns(s, op, nested) ==
    \/ nested = <<>>
    \/ /\ ~isUnsubscribed[s]
       /\ op \in handlers[s]
       /\ \A i \in 1..(Len(nested) - 1) :
             nested[i][1] \in handlers[s] \cap {"error", "complete"}
       /\ ncalls + Len(nested) < MaxCalls

\* history of a call of op whose handler makes the calls nested
CalledReentrant(s, op, nested) ==
    /\ terminal' = [terminal EXCEPT ![s] = IF @ = "none" THEN op ELSE @]
    /\ unsubscribed' = [unsubscribed EXCEPT ![s] =
            @ \/ \E i \in DOMAIN nested : nested[i][1] = "unsubscribe"]
    /\ ncalls' = ncalls + 1 + Len(nested)

\* the producer calls observer.error(e)
ReentrantError(s, e, nested) ==
    /\ ProducerHolds(s)
    /\ NestedRuns(s, "error", nested)
    /\ CalledReentrant(s, "error", nested)
    /\ Store(s, errorReentrant(ObserverOf(s), e, nested))
    /\ UNCHANGED <<observable, pc, runs>>

\* the producer calls observer.complete()
ReentrantComplete(s, nested) ==
    /\ ProducerHolds(s)
    /\ NestedRuns(s, "complete", nested)
    /\ CalledReentrant(s, "complete", nested)
    /\ Store(s, completeReentrant(ObserverOf(s), nested))
    /\ UNCHANGED <<observable, pc, runs>>

\* a caller-supplied producer and handlers that may call back
InitReentrant ==
    /\ Init
    /\ observable = ProducerObservable

NextReentrant ==
    \/ \E s \in Subs, obs \in SUBSET HandlerNames : SubscribeCall(s, obs)
    \/ \E s \in Subs : SubscribeReturn(s)
    \/ \E s \in Subs, v \in Values : ProducerNext(s, v)
    \/ \E s \in Subs, e \in Errors, nested \in NestedCalls :
            ReentrantError(s, e, nested)
    \/ \E s \in Subs, nested \in NestedCalls :
            ReentrantComplete(s, nested)
    \/ \E s \in Subs : ProducerUnsubscribe(s)
    \/ \E s \in Subs : Unsubscribe(s)

SpecReentrant == InitReentrant /\ [][NextReentrant]_vars

Next ==
    \/ \E s \in Subs, obs \in SUBSET HandlerNames : SubscribeCall(s, obs)
    \/ \E s \in Subs : SubscribeReturn(s)
    \/ \E s \in Subs, obs \in SUBSET HandlerNames : SubscribeFrom(s, obs)
    \/ \E s \in Subs, v \in Values : ProducerNext(s, v)
    \/ \E s \in Subs, e \in Errors : ProducerError(s, e)
    \/ \E s \in Subs : ProducerComplete(s)
    \/ \E s \in Subs : ProducerUnsubscribe(s)
    \/ \E s \in Subs : Unsubscribe(s)

Spec == Init /\ [][Next]_vars

\* ---- reading the log ----
Occ(sq, kind) == Cardinality({i \in DOMAIN sq : sq[i][1] = kind})
IsHandlerEv(ev) == ev[1] # "teardown"
HandlerCalls(sq) == SelectSeq(sq, IsHandlerEv)
Teardowns(s) == Occ(log[s], "teardown")

\* C1 (P1): on every Observer at most one of the error/complete handlers is
\* ever invoked, and once error, complete or unsubscribe has been called no
\* handler (next, error, complete) is invoked again.  (The log is empty at
\* first, so it is enough to look at the steps that change it.)
C1_AtMostOneTerminalNotification ==
    [][\A s \in Subs :
          log'[s] # log[s] =>
              /\ Occ(log'[s], "error") + Occ(log'[s], "complete") <= 1
              /\ terminal[s] # "none" => HandlerCalls(log'[s]) = HandlerCalls(log[s])]_vars

\* an Observer with all three handlers that delivered a next, then an error,
\* and was unsubscribed afterwards
C1_Witness ==
    \E s \in Subs :
        /\ handlers[s] = HandlerNames
        /\ terminal[s] = "error"
        /\ unsubscribed[s]
        /\ Occ(log[s], "next") >= 1
        /\ Occ(log[s], "error") = 1
        /\ ncalls >= 4

\* C2 (P2): on a subscription whose teardown is assigned and whose only
\* terminal events are unsubscribe() calls, every unsubscribe() call leaves
\* the teardown action invoked exactly once in total.
C2_UnsubscribeIdempotent ==
    [][\A s \in Subs :
          (Unsubscribe(s) /\ _unsubscribe[s] /\ terminal[s] \in {"none", "unsubscribe"})
              => Occ(log'[s], "teardown") = 1]_vars

\* C3: the teardown action of a subscription is invoked at most once.
C3_TeardownAtMostOnce == \A s \in Subs : Teardowns(s) <= 1

\* C4: once a subscription has terminated and subscribe() has returned, its
\* teardown action has been invoked exactly once.
C4_TeardownExactlyOnce ==
    \A s \in Subs : (pc[s] = "returned" /\ terminal[s] # "none") => Teardowns(s) = 1

\* C5: when the producer's only effective call is one error(e) (no next was
\* delivered, nothing was unsubscribed) and all handlers are present, then
\* after subscribe() has returned the error handler ran once with e, no other
\* handler ran, and the teardown ran once.
C5_ErrorScenario ==
    \A s \in Subs :
        (/\ pc[s] = "returned"
         /\ handlers[s] = HandlerNames
         /\ terminal[s] = "error"
         /\ ~unsubscribed[s]
         /\ Occ(log[s], "next") = 0)
        => \E e \in Errors : log[s] = <<ErrorEv(e), TeardownEv>>

\* one next invocation for each of the first k elements of vs, in order
FromPrefix(vs, k) == [i \in 1..k |-> NextEv(vs[i])]

\* C6 (P3): with next and complete handlers, from(vs) invokes next once per
\* element in the order of vs, then complete once, and never error.
C6_OrderPreservation ==
    \A s \in Subs :
        (observable.kind = "from" /\ pc[s] = "returned"
            /\ {"next", "complete"} \subseteq handlers[s])
        => HandlerCalls(log[s]) =
              FromPrefix(observable.values, Len(observable.values)) \o <<CompleteEv>>

\* from([1,2,3]) has run to its end on a subscription with next and complete
C6_Witness ==
    /\ observable = [kind |-> "from", values |-> <<1, 2, 3>>]
    /\ pc[1] = "returned"
    /\ handlers[1] = {"next", "complete"}
    /\ HandlerCalls(log[1]) = <<NextEv(1), NextEv(2), NextEv(3), CompleteEv>>

\* C7 (P4): once unsubscribe() has been called on a subscription, no later
\* next/error/complete call of the producer invokes a handler.
C7_PostUnsubscribeSilence ==
    [][\A s \in Subs :
          (unsubscribed[s] /\ log'[s] # log[s])
              => HandlerCalls(log'[s]) = HandlerCalls(log[s])]_vars

\* the subscription was unsubscribed before any emission, after subscribe()
\* returned, and the producer has called next/error/complete since: with all
\* handlers present the log holds the one teardown and nothing else
C7_Witness ==
    /\ pc[1] = "returned" /\ pc[2] = "none"
    /\ handlers[1] = HandlerNames
    /\ terminal[1] = "unsubscribe"
    /\ log[1] = <<TeardownEv>>
    /\ ncalls = 4

\* C8 (P5): with an empty handlers object no handler is ever invoked, and
\* the first terminal event, when it is an error() or complete() call, sets
\* isUnsubscribed and invokes the teardown if it is assigned.
C8_HandlerOptionality ==
    [][\A s \in Subs :
          handlers'[s] = {} =>
              /\ HandlerCalls(log'[s]) = <<>>
              /\ (terminal[s] = "none" /\ terminal'[s] \in {"error", "complete"})
                  => /\ isUnsubscribed'[s]
                     /\ log'[s] = IF _unsubscribe[s]
                                  THEN Append(log[s], TeardownEv)
                                  ELSE log[s]]_vars

\* an Observer without handlers was terminated by error() or complete()
\* after its teardown was assigned
C8_Witness ==
    \E s \in Subs :
        /\ pc[s] = "returned"
        /\ handlers[s] = {}
        /\ terminal[s] \in {"error", "complete"}
        /\ isUnsubscribed[s]
        /\ log[s] = <<TeardownEv>>

\* C9: after subscribe() with all three handlers on from([1,2,3]) has
\* returned, the handlers were called as h1(1), h1(2), h1(3), h3(), and
\* unsubscribe() on the Subscription invokes neither a handler nor the teardown.
C9_CompletedStreamScenario ==
    [][\A s \in Subs :
          (/\ observable = [kind |-> "from", values |-> <<1, 2, 3>>]
           /\ handlers[s] = HandlerNames
           /\ Unsubscribe(s))
          => /\ HandlerCalls(log[s]) = <<NextEv(1), NextEv(2), NextEv(3), CompleteEv>>
             /\ log'[s] = log[s]]_vars

\* the fields of the Observer of subscription s
ObserverFields(s) == <<handlers[s], isUnsubscribed[s], _unsubscribe[s], log[s]>>

\* C10: subscribe() starts from a brand-new Observer and a fresh producer
\* run, and a step of one subscription changes no other subscription's
\* Observer (flag, teardown slot, handlers, invocations).
C10_SubscriptionIndependence ==
    [][/\ \A s \in Subs :
            (pc[s] = "none" /\ pc'[s] = "producer")
                => ~isUnsubscribed'[s] /\ ~_unsubscribe'[s] /\ log'[s] = <<>>
       /\ \A s \in Subs :
            (pc[s] = "none" /\ pc'[s] = "returned")
                => /\ Occ(log'[s], "teardown") = 0
                   /\ Occ(log'[s], "next") =
                        IF "next" \in handlers'[s] THEN Len(observable.values) ELSE 0
       /\ Cardinality({s \in Subs : ObserverFields(s)' # ObserverFields(s)}) <= 1]_vars

\* two subscriptions of the same Observable: the first one terminated and ran
\* its teardown, the second one is still live and receiving values
C10_Witness ==
    /\ pc[1] = "returned" /\ pc[2] = "returned"
    /\ isUnsubscribed[1] /\ Teardowns(1) >= 1
    /\ ~isUnsubscribed[2] /\ Teardowns(2) = 0
    /\ "next" \in handlers[2] /\ Occ(log[2], "next") >= 1

\* the subscribe() calls made so far
Subscribed == {s \in Subs : pc[s] # "none"}

\* C11: constructing the Observable runs no producer and invokes no handler
\* or teardown, and the producer is invoked exactly once per subscribe()
\* call, inside that call: never before the first one.
C11_Laziness ==
    /\ runs = Cardinality(Subscribed)
    /\ \A s \in Subs \ Subscribed :
          log[s] = <<>> /\ ~isUnsubscribed[s] /\ terminal[s] = "none"

\* two subscribe() calls have been made and have run the producer twice,
\* the second run still being inside subscribe()
C11_Witness ==
    /\ pc[1] = "returned" /\ pc[2] = "producer"
    /\ runs = 2

\* the step is a call of error, complete or unsubscribe on subscription s
\* (the producer of from calls complete inside subscribe(obs), and obs is
\* what the new Observer holds as its handlers)
TerminalCall(s) ==
    \/ \E e \in Errors : ProducerError(s, e)
    \/ ProducerComplete(s)
    \/ ProducerUnsubscribe(s)
    \/ Unsubscribe(s)
    \/ SubscribeFrom(s, handlers'[s])

\* the step is a call of next, error or complete on subscription s
NotificationCall(s) ==
    \/ \E v \in Values : ProducerNext(s, v)
    \/ \E e \in Errors : ProducerError(s, e)
    \/ ProducerComplete(s)

\* C12: isUnsubscribed is false at creation, becomes true only in a call of
\* unsubscribe/error/complete, and never becomes false again; on a terminated
\* Observer next, error and complete invoke nothing and change no field.
C12_TerminatedIsAbsorbing ==
    [][\A s \in Subs :
          /\ (pc[s] = "none" /\ pc'[s] = "producer") => ~isUnsubscribed'[s]
          /\ (~isUnsubscribed[s] /\ isUnsubscribed'[s]) => TerminalCall(s)
          /\ isUnsubscribed[s] => isUnsubscribed'[s]
          /\ (isUnsubscribed[s] /\ ObserverFields(s)' # ObserverFields(s))
                => ~NotificationCall(s)]_vars

\* an Observer with all handlers completed after subscribe() returned, and
\* two more notifications were sent to it: the log ends with that completion
C12_Witness ==
    /\ pc[1] = "returned" /\ pc[2] = "none"
    /\ handlers[1] = HandlerNames
    /\ terminal[1] = "complete"
    /\ log[1] = <<CompleteEv, TeardownEv>>
    /\ ncalls = 4

\* C13: next(v) on a non-terminated Observer invokes the next handler, if
\* present, exactly once with v, and leaves isUnsubscribed false and the
\* teardown slot and the teardown invocations unchanged.
C13_NextDoesNotTerminate ==
    [][\A s \in Subs, v \in Values :
          (ProducerNext(s, v) /\ ~isUnsubscribed[s])
              => /\ log'[s] = IF "next" \in handlers[s]
                              THEN Append(log[s], NextEv(v))
                              ELSE log[s]
                 /\ ~isUnsubscribed'[s]
                 /\ _unsubscribe'[s] = _unsubscribe[s]]_vars

\* three consecutive next calls were all delivered and the Observer is live
C13_Witness ==
    \E s \in Subs :
        /\ ~isUnsubscribed[s]
        /\ Len(log[s]) = 3
        /\ \A i \in 1..3 : log[s][i][1] = "next"

\* C15: the teardown slot is empty while the producer runs and is assigned
\* when the producer returns, for good; the assignment itself invokes
\* nothing, so a subscription that terminated inside subscribe() has run no
\* teardown when subscribe() returns, and the teardown of from(vs) is only
\* ever invoked by unsubscribe() on the Subscription.
C15_NoRetroactiveTeardown ==
    [][\A s \in Subs :
          /\ pc'[s] = "producer" => (~_unsubscribe'[s] /\ Occ(log'[s], "teardown") = 0)
          /\ (pc[s] # "returned" /\ pc'[s] = "returned")
                => (_unsubscribe'[s] /\ Occ(log'[s], "teardown") = 0)
          /\ pc[s] = "returned" => (_unsubscribe[s] /\ _unsubscribe'[s])
          /\ (observable.kind = "from"
                /\ Occ(log'[s], "teardown") > Occ(log[s], "teardown"))
                => Unsubscribe(s)]_vars

\* a custom producer terminated its Observer inside subscribe(): after the
\* return the teardown is assigned and has not been invoked
C15_Witness ==
    \E s \in Subs :
        /\ observable.kind = "producer"
        /\ pc[s] = "returned"
        /\ terminal[s] \in {"error", "complete"}
        /\ isUnsubscribed[s] /\ _unsubscribe[s]
        /\ Teardowns(s) = 0

\* what every error/complete call on a non-terminated Observer of s shows
\* (all of it follows from ReentrantError and ReentrantComplete)
TerminalCallOnLive(s) ==
    ~isUnsubscribed[s] /\ terminal'[s] # "none" /\ ncalls' > ncalls

\* what a terminal call with handler event ev appends to the log of s when
\* its handler calls nothing: the handler if present, then the teardown if
\* assigned
HandlerPart(s, op, ev) == IF op \in handlers[s] THEN <<ev>> ELSE <<>>
TeardownPart(s) == IF _unsubscribe[s] THEN <<TeardownEv>> ELSE <<>>

\* the handler of op on s runs and calls next(v), whose handler is present
CallsNext(s, op, nested, v) ==
    /\ op \in handlers[s] /\ "next" \in handlers[s]
    /\ Len(nested) = 1 /\ nested[1][1] = "next" /\ nested[1][2] = v

\* the log of s after a terminal call, as C14 orders it
OrderedTerminal(s, op, ev, nested) ==
    /\ isUnsubscribed'[s]
    /\ (nested = <<>> \/ op \notin handlers[s])
          => log'[s] = log[s] \o HandlerPart(s, op, ev) \o TeardownPart(s)
    /\ \A v \in Values :
          CallsNext(s, op, nested, v)
              => log'[s] = log[s] \o <<ev, NextEv(v)>> \o TeardownPart(s)

\* C14: error(e) (resp. complete()) on a non-terminated Observer invokes the
\* handler first, if present, and only then sets isUnsubscribed and invokes
\* the assigned teardown: a next() the handler makes is still delivered,
\* before the teardown.  Without the handler the Observer is terminated and
\* the teardown invoked all the same.
C14_TerminalStepOrdering ==
    [][\A s \in Subs :
          TerminalCallOnLive(s) =>
              \A nested \in NestedCalls :
                  /\ \A e \in Errors :
                        ReentrantError(s, e, nested)
                            => OrderedTerminal(s, "error", ErrorEv(e), nested)
                  /\ ReentrantComplete(s, nested)
                            => OrderedTerminal(s, "complete", CompleteEv, nested)]_vars

\* error("boom") after subscribe() returned: the error handler ran, the
\* next(1) it made was delivered, then the teardown ran
C14_Witness ==
    \E s \in Subs :
        /\ isUnsubscribed[s]
        /\ terminal[s] = "error"
        /\ log[s] = <<ErrorEv("boom"), NextEv(1), TeardownEv>>

\* C16: a call that the error or complete handler makes on its own Observer
\* or Subscription while it runs invokes no handler and no second teardown:
\* the log is the one of a handler that calls nothing.
C16_ReentrancyGateClosed ==
    [][\A s \in Subs :
          TerminalCallOnLive(s) =>
              \A nested \in NestedCalls :
                  /\ \A e \in Errors :
                        ReentrantError(s, e, nested)
                            => log'[s] = log[s] \o HandlerPart(s, "error", ErrorEv(e))
                                                \o TeardownPart(s)
                  /\ ReentrantComplete(s, nested)
                            => log'[s] = log[s] \o HandlerPart(s, "complete", CompleteEv)
                                                \o TeardownPart(s)]_vars

====
